---- MODULE Spec2Model ----
(***************************************************************************)
(* A model of src/server.js: an express service with a JSON body parser,   *)
(* a CORS policy, a fixed-window rate limiter on /api/, three API routes   *)
(* backed by one table (query_logs), static files, and a bootstrap that    *)
(* retries the next port when the configured one is in use.                *)
(*                                                                         *)
(* Strings whose content the code inspects (CORS_ORIGIN, the Origin        *)
(* header, the limit query parameter, PORT) are sequences of one-character *)
(* strings.  In CORS values the characters "a" and "b" stand for the       *)
(* origins https://a.com and https://b.com.  A submitted text is modelled  *)
(* by its length (the text is the character x repeated len times): the     *)
(* code looks at nothing else and stores it verbatim.                      *)
(***************************************************************************)
EXTENDS Integers, Sequences, FiniteSets, Bags, TLC

VARIABLES
  origins,    \* the CORS allow-list parsed at startup (server.js:20-23)
  cors,       \* the decision of the CORS middleware on the latest request
  hits,       \* the rate limiter's counter per client address, this window
  reached,    \* history: requests that reached the limiter, per address
  skipped,    \* history: /api/ requests answered before the limiter
  mw,         \* the outcome of the middleware chain on the latest request
  store,      \* the rows of query_logs, in insertion order
  nextId,     \* the next value of the id sequence of query_logs
  now,        \* the database clock
  inflight,   \* statements submitted to the pool whose handler is awaiting
  resp,       \* the response written by the latest step (NoResp if none)
  portEnv,    \* process.env.PORT
  portState,  \* what binding each port gives: free, inuse or error
  bootPc,     \* where the bootstrap is
  port,       \* the port of the current (or last) listen attempt
  attempts,   \* history: the ports tried, in order
  logged      \* history: whether the 'Server error' line was logged

mwVars   == <<hits, reached, skipped, mw>>
apiVars  == <<store, nextId, now, inflight, resp>>
bootVars == <<portEnv, portState, bootPc, port, attempts, logged>>
vars     == <<origins, cors, hits, reached, skipped, mw, store, nextId, now,
              inflight, resp, portEnv, portState, bootPc, port, attempts, logged>>

(***************************** bounds **************************************)
MaxEnvLen    == 4   \* characters of CORS_ORIGIN
MaxSkipped   == 1   \* /api/ requests per address and window answered before the limiter
MaxRows      == 2   \* rows of query_logs
MaxInflight  == 2   \* statements awaited at the same time
Budget       == 3   \* requests left in the window when the service is observed
PortSpan     == 2   \* ports above the default one whose state is chosen

(************************ program constants ********************************)
RateMax      == 60
TextMin      == 1
TextMax      == 2000
LimitLo      == 1
LimitHi      == 100
LimitDefault == 20
DefaultPort  == 8080
PortLimit    == 2 ^ 16   \* listen() throws ERR_SOCKET_BAD_PORT from here on

Min(a, b) == IF a < b THEN a ELSE b
Max(a, b) == IF a > b THEN a ELSE b
Range(s)  == {s[i] : i \in 1..Len(s)}

SeqsUpTo(S, n) == UNION {[1..k -> S] : k \in 0..n}

(************************* strings *****************************************)
\* An environment variable or a header: absent (undefined) or a string.
Undefined == [has |-> FALSE, val |-> <<>>]
Str(s)    == [has |-> TRUE, val |-> s]

\* JavaScript truthiness of a string-or-undefined value: undefined and ''
\* are falsy.
Truthy(v) == v.has /\ v.val # <<>>

\* v || d
OrElse(v, d) == IF Truthy(v) THEN v.val ELSE d

RECURSIVE Split(_, _)
\* String.prototype.split(sep): ''.split(',') is [''].
Split(s, sep) ==
  IF \A i \in 1..Len(s) : s[i] # sep
    THEN <<s>>
    ELSE LET i == CHOOSE k \in 1..Len(s) :
                    s[k] = sep /\ \A j \in 1..(k - 1) : s[j] # sep
         IN <<SubSeq(s, 1, i - 1)>> \o Split(SubSeq(s, i + 1, Len(s)), sep)

RECURSIVE Trim(_)
\* String.prototype.trim(): whitespace off both ends.
Trim(s) ==
  IF s = <<>> THEN s
  ELSE IF Head(s) = " " THEN Trim(Tail(s))
  ELSE IF s[Len(s)] = " " THEN Trim(SubSeq(s, 1, Len(s) - 1))
  ELSE s

\* .filter(Boolean) on an array of strings: the empty strings go.
FilterTruthy(ss) == SelectSeq(ss, LAMBDA x : x # <<>>)

DigitChars == {"0", "1", "2", "3", "4", "5", "6", "7", "8", "9"}

DigitVal(c) ==
  CASE c = "0" -> 0 [] c = "1" -> 1 [] c = "2" -> 2 [] c = "3" -> 3
    [] c = "4" -> 4 [] c = "5" -> 5 [] c = "6" -> 6 [] c = "7" -> 7
    [] c = "8" -> 8 [] c = "9" -> 9

RECURSIVE DigitsVal(_)
DigitsVal(s) ==
  IF s = <<>> THEN 0 ELSE 10 * DigitsVal(SubSeq(s, 1, Len(s) - 1)) + DigitVal(s[Len(s)])

AllDigits(s) == s # <<>> /\ \A i \in 1..Len(s) : s[i] \in DigitChars

\* Number(v) for undefined or a string over the digits, "-" and letters:
\* undefined is NaN, '' is 0, an optionally signed run of digits is its
\* value, anything else is NaN.  (-0 is 0 here; both are falsy.)
NaN == [nan |-> TRUE, n |-> 0]
Num(n) == [nan |-> FALSE, n |-> n]
Number(v) ==
  IF ~v.has THEN NaN
  ELSE IF v.val = <<>> THEN Num(0)
  ELSE IF AllDigits(v.val) THEN Num(DigitsVal(v.val))
  ELSE IF Head(v.val) = "-" /\ AllDigits(Tail(v.val)) THEN Num(0 - DigitsVal(Tail(v.val)))
  ELSE NaN

(**************************** CORS *****************************************)
EnvChars == {",", " ", "a", "b"}
CorsEnvs == {Undefined} \cup {Str(s) : s \in SeqsUpTo(EnvChars, MaxEnvLen)}

\* (process.env.CORS_ORIGIN || '').split(',').map(trim).filter(Boolean)
ParseOrigins(env) ==
  LET parts == Split(OrElse(env, <<>>), ",")
  IN FilterTruthy([i \in 1..Len(parts) |-> Trim(parts[i])])

OriginA == <<"a">>
OriginB == <<"b">>
OriginHeaders == {Undefined, Str(<<>>), Str(OriginA), Str(OriginB)}

\* The callback without its test of an empty allow-list.
CorsAllowedNoEmptyList(origin) ==
  \/ ~Truthy(origin)
  \/ origin.val \in Range(origins)

\* The origin callback of the cors options: cb(null, true) or cb(null, false).
CorsAllowed(origin) ==
  \/ ~Truthy(origin)
  \/ Len(origins) = 0
  \/ origin.val \in Range(origins)

\* What the cors middleware does with the callback's answer.  With true
\* it reflects the request's origin (when there is one to reflect) and
\* allows credentials; with false it sets nothing and calls next().
CorsDecision(origin) ==
  IF CorsAllowed(origin)
    THEN [done |-> TRUE, origin |-> origin, allowed |-> TRUE,
          acao |-> IF Truthy(origin) THEN origin ELSE Undefined,
          acac |-> TRUE]
    ELSE [done |-> TRUE, origin |-> origin, allowed |-> FALSE,
          acao |-> Undefined, acac |-> FALSE]

NoCors == [done |-> FALSE, origin |-> Undefined, allowed |-> FALSE,
           acao |-> Undefined, acac |-> FALSE]

(************************ middleware chain *********************************)
Clients == {"10.0.0.1", "10.0.0.2"}
Methods == {"GET", "POST", "OPTIONS"}

\* Paths, as their segments.
PQueries == <<"api", "queries">>
PHealth  == <<"api", "health">>
PApiOther == <<"api", "other">>
PRoot    == <<>>
PFile    == <<"app.js">>
Paths    == {PQueries, PHealth, PApiOther, PRoot, PFile}

\* app.use('/api/', ...): the mount path matches on whole segments.
UnderApi(path) == Len(path) >= 1 /\ path[1] = "api"

\* The chain with a limiter that lets one request fewer through.
ChainOutcomeOffByOne(method, path, ip, origin, jsonOk) ==
  IF ~jsonOk THEN "bad_json"
  ELSE IF method = "OPTIONS" /\ CorsAllowed(origin) THEN "preflight"
  ELSE IF UnderApi(path) /\ hits[ip] >= RateMax - 1 THEN "limited"
  ELSE "next"

\* The chain in the order the middleware is registered: express.json()
\* (a body that does not parse ends the request with 400), cors (an
\* OPTIONS request the policy permits is answered 204 by the middleware
\* itself), then, under /api/, the rate limiter.
ChainOutcome(method, path, ip, origin, jsonOk) ==
  IF ~jsonOk THEN "bad_json"
  ELSE IF method = "OPTIONS" /\ CorsAllowed(origin) THEN "preflight"
  ELSE IF UnderApi(path) /\ hits[ip] >= RateMax THEN "limited"
  ELSE "next"

\* Whether the request gets as far as the rate limiter.
ReachesLimiter(method, path, origin, jsonOk) ==
  /\ jsonOk
  /\ ~(method = "OPTIONS" /\ CorsAllowed(origin))
  /\ UnderApi(path)

\* The limiter's counter after the request (keyGenerator: req.ip).  The
\* count is kept up to RateMax + 1: beyond max only "over the limit" matters.
HitsAfter(method, path, ip, origin, jsonOk) ==
  IF ReachesLimiter(method, path, origin, jsonOk)
    THEN [hits EXCEPT ![ip] = Min(@ + 1, RateMax + 1)]
    ELSE hits

StatusOf(outcome) ==
  CASE outcome = "bad_json"  -> 400
    [] outcome = "preflight" -> 204
    [] outcome = "limited"   -> 429

\* The requests the chain is driven with: to a path under /api/ and to a
\* static file; a preflight carries an Origin the policy permits or one it
\* refuses, the others carry none; only a POST carries a body, which
\* parses or not.
SentRequests ==
  {r \in [method : Methods, path : {PQueries, PFile},
          origin : {Undefined, Str(OriginA), Str(OriginB)}, jsonOk : BOOLEAN] :
     /\ r.origin.has <=> r.method = "OPTIONS"
     /\ ~r.jsonOk => r.method = "POST"}

\* Those of them, and the ones to an /api/ path without a route, that no
\* route of the API answers.
OtherRequests ==
  {r \in [method : {"GET", "OPTIONS"}, path : {PQueries, PApiOther, PFile},
          origin : {Undefined, Str(OriginA), Str(OriginB)}] :
     /\ r.origin.has <=> r.method = "OPTIONS"
     /\ ~(r.method = "GET" /\ r.path = PQueries)}

NoMw == [ip |-> "", api |-> FALSE, counted |-> FALSE, out |-> "none"]

\* One request through the chain; the route handlers are not followed.
Limiter(method, path, ip, origin, jsonOk) ==
  LET counted == ReachesLimiter(method, path, origin, jsonOk)
      early   == UnderApi(path) /\ ~counted
  IN /\ early => skipped[ip] < MaxSkipped
     /\ hits' = HitsAfter(method, path, ip, origin, jsonOk)
     /\ reached' = IF counted THEN [reached EXCEPT ![ip] = Min(@ + 1, RateMax + 1)]
                   ELSE reached
     /\ skipped' = IF early THEN [skipped EXCEPT ![ip] = @ + 1] ELSE skipped
     /\ mw' = [ip |-> ip, api |-> UnderApi(path), counted |-> counted,
               out |-> ChainOutcome(method, path, ip, origin, jsonOk)]
     /\ UNCHANGED <<origins, cors, apiVars, bootVars>>

\* The window of one address ends: its count starts again.
WindowReset(ip) ==
  /\ hits[ip] > 0 \/ skipped[ip] > 0
  /\ hits' = [hits EXCEPT ![ip] = 0]
  /\ reached' = [reached EXCEPT ![ip] = 0]
  /\ skipped' = [skipped EXCEPT ![ip] = 0]
  /\ mw' = NoMw
  /\ UNCHANGED <<origins, cors, apiVars, bootVars>>

\* The cors middleware on one request (every route passes through it).
CorsRequest(origin) ==
  /\ cors' = CorsDecision(origin)
  /\ UNCHANGED <<origins, mwVars, apiVars, bootVars>>

(****************************** storage ************************************)
\* A row of query_logs.  id and created_at are assigned by the table
\* (sequence and clock); the statement supplies text, ip and meta.
NewRow(text, ip, meta) ==
  [id |-> nextId, text |-> text, ip |-> ip, meta |-> meta, created_at |-> now]

\* SELECT id, text, ip, created_at: the columns of a listed row.
Listed(row) ==
  [id |-> row.id, text |-> row.text, ip |-> row.ip, created_at |-> row.created_at]

\* The statement with ORDER BY created_at ASC.
SelectOldest(rows, n) ==
  LET k == Min(n, Len(rows))
      picks == {s \in [1..k -> 1..Len(rows)] :
                  /\ \A i, j \in 1..k : i # j => s[i] # s[j]
                  /\ \A i, j \in 1..k :
                       i < j => rows[s[i]].created_at <= rows[s[j]].created_at
                  /\ \A m \in 1..Len(rows) :
                       (\A i \in 1..k : s[i] # m) =>
                          \A i \in 1..k : rows[m].created_at >= rows[s[i]].created_at}
  IN {[i \in 1..k |-> Listed(rows[s[i]])] : s \in picks}

\* ORDER BY created_at DESC LIMIT n: every answer the statement can give.
\* Rows with the same created_at come in any order, and any of them may
\* be the ones the limit cuts off.
SelectRecent(rows, n) ==
  LET k == Min(n, Len(rows))
      picks == {s \in [1..k -> 1..Len(rows)] :
                  /\ \A i, j \in 1..k : i # j => s[i] # s[j]
                  /\ \A i, j \in 1..k :
                       i < j => rows[s[i]].created_at >= rows[s[j]].created_at
                  /\ \A m \in 1..Len(rows) :
                       (\A i \in 1..k : s[i] # m) =>
                          \A i \in 1..k : rows[m].created_at <= rows[s[i]].created_at}
  IN {[i \in 1..k |-> Listed(rows[s[i]])] : s \in picks}

(****************************** requests ***********************************)
\* The JSON body of a POST.  text: missing, or a string of the
\* given length; meta: absent, the object {"k":1}, or an array.
TextLens == {0, TextMin, TextMax, TextMax + 1}
TextVals == {[t |-> "missing", len |-> 0]} \cup {[t |-> "string", len |-> n] : n \in TextLens}
MetaVals == {"absent", "object", "array"}
MalformedBody == [json |-> FALSE, text |-> [t |-> "missing", len |-> 0], meta |-> "absent"]
Bodies == {[json |-> TRUE, text |-> t, meta |-> m] : t \in TextVals, m \in MetaVals}
            \cup {MalformedBody}

\* The bodies the service is driven with: every text without meta, the
\* valid texts with an object, one valid text with an array, and a body
\* that does not parse.
SentBodies ==
  {b \in Bodies :
     /\ b.meta = "object" => (b.text.t = "string" /\ b.text.len \in TextMin..TextMax)
     /\ b.meta = "array" => b.text = [t |-> "string", len |-> TextMin]}

\* The limit query parameter: absent, or one of these strings.
LimitParams == {Undefined, Str(<<"0">>), Str(<<"1">>), Str(<<"-", "5">>),
                Str(<<"5", "0", "0">>), Str(<<"x">>)}

\* The schema without .max(2000).
QuerySchemaOkNoMax(body) ==
  /\ body.text.t = "string"
  /\ body.text.len >= TextMin
  /\ body.meta \in {"absent", "object"}

\* The schema without .min(1).
QuerySchemaOkNoMin(body) ==
  /\ body.text.t = "string"
  /\ body.text.len <= TextMax
  /\ body.meta \in {"absent", "object"}

\* QuerySchema.safeParse(req.body).success
QuerySchemaOk(body) ==
  /\ body.text.t = "string"
  /\ body.text.len >= TextMin
  /\ body.text.len <= TextMax
  /\ body.meta \in {"absent", "object"}

\* JSON.stringify(meta): without the default, undefined is sent as NULL.
MetaJsonNoDefault(meta) == IF meta = "object" THEN "{\"k\":1}" ELSE "null"

\* JSON.stringify(meta || {})
MetaJson(meta) == IF meta = "object" THEN "{\"k\":1}" ELSE "{}"

\* (req.ips && req.ips.length ? req.ips[0] : req.ip) || null.  With
\* 'trust proxy' 1, req.ips is empty or holds the one forwarded address,
\* which is req.ip.
ForwardedIps(ip, fwd) == IF fwd THEN <<ip>> ELSE <<>>
StoredIp(ip, ips) == IF Len(ips) > 0 THEN ips[1] ELSE ip

\* Math.max(1, Math.min(100, Number(req.query.limit) || 20))
ClampLimit(q) ==
  LET n == Number(q)
      v == IF n.nan \/ n.n = 0 THEN LimitDefault ELSE n.n
  IN Max(LimitLo, Min(LimitHi, v))

NoResp == [route |-> "none"]

\* A response written before any route handler runs.
Rejected(route, ip, outcome) ==
  [route |-> route, ip |-> ip, status |-> StatusOf(outcome), db |-> "none", ops |-> 0]

\* Room for one more awaited statement (the bounds of the model).
Room == BagCardinality(inflight) < MaxInflight
InsertRoom == Len(store) + BagCardinality(inflight) < MaxRows

(******************************* routes ************************************)
\* POST /api/queries, up to the await of pool.query.
PostQueries(ip, body) ==
  LET out == ChainOutcome("POST", PQueries, ip, Undefined, body.json)
  IN /\ hits' = HitsAfter("POST", PQueries, ip, Undefined, body.json)
     /\ IF out # "next"
          THEN /\ resp' = [Rejected("post", ip, out) EXCEPT !.ops = 0] @@ [body |-> body]
               /\ inflight' = inflight
          ELSE IF ~QuerySchemaOk(body)
          THEN /\ resp' = [route |-> "post", ip |-> ip, status |-> 400, db |-> "none",
                           ops |-> 0, body |-> body]
               /\ inflight' = inflight
          ELSE /\ Room /\ InsertRoom
               /\ \E fwd \in BOOLEAN :
                    inflight' = inflight (+) SetToBag({
                      [op |-> "insert", text |-> body.text.len,
                       ip |-> StoredIp(ip, ForwardedIps(ip, fwd)),
                       meta |-> MetaJson(body.meta),
                       client |-> ip, body |-> body, tries |-> 1]})
               /\ resp' = NoResp
     /\ UNCHANGED <<store, nextId, now>>
     /\ UNCHANGED <<origins, cors, reached, skipped, mw, bootVars>>

\* The insert succeeds: RETURNING id, created_at, and the 201 response.
InsertDone(s) ==
  /\ BagIn(s, inflight) /\ s.op = "insert"
  /\ LET row == NewRow(s.text, s.ip, s.meta)
     IN /\ store' = Append(store, row)
        /\ nextId' = nextId + 1
        /\ resp' = [route |-> "post", ip |-> s.client, status |-> 201, db |-> "ok",
                    ops |-> s.tries, body |-> s.body,
                    id |-> row.id, createdAt |-> row.created_at]
  /\ inflight' = inflight (-) SetToBag({s})
  /\ UNCHANGED <<now, hits>>
  /\ UNCHANGED <<origins, cors, reached, skipped, mw, bootVars>>

\* The catch block reissuing the statement once before it gives up.
InsertFailedRetry(s) ==
  /\ BagIn(s, inflight) /\ s.op = "insert"
  /\ IF s.tries < 2
       THEN /\ inflight' = (inflight (-) SetToBag({s}))
                             (+) SetToBag({[s EXCEPT !.tries = @ + 1]})
            /\ resp' = NoResp
       ELSE /\ inflight' = inflight (-) SetToBag({s})
            /\ resp' = [route |-> "post", ip |-> s.client, status |-> 500,
                        db |-> "failed", ops |-> s.tries, body |-> s.body]
  /\ UNCHANGED <<store, nextId, now, hits>>
  /\ UNCHANGED <<origins, cors, reached, skipped, mw, bootVars>>

\* The insert throws: console.error and the 500 response.
InsertFailed(s) ==
  /\ BagIn(s, inflight) /\ s.op = "insert"
  /\ resp' = [route |-> "post", ip |-> s.client, status |-> 500, db |-> "failed",
              ops |-> s.tries, body |-> s.body]
  /\ inflight' = inflight (-) SetToBag({s})
  /\ UNCHANGED <<store, nextId, now, hits>>
  /\ UNCHANGED <<origins, cors, reached, skipped, mw, bootVars>>

\* GET /api/queries, up to the await of pool.query.
GetQueries(ip, q) ==
  LET out == ChainOutcome("GET", PQueries, ip, Undefined, TRUE)
  IN /\ hits' = HitsAfter("GET", PQueries, ip, Undefined, TRUE)
     /\ IF out # "next"
          THEN /\ resp' = Rejected("get", ip, out) @@ [q |-> q]
               /\ inflight' = inflight
          ELSE /\ Room
               /\ inflight' = inflight (+) SetToBag({
                    [op |-> "select", limit |-> ClampLimit(q),
                     client |-> ip, q |-> q, tries |-> 1]})
               /\ resp' = NoResp
     /\ UNCHANGED <<store, nextId, now>>
     /\ UNCHANGED <<origins, cors, reached, skipped, mw, bootVars>>

\* The select succeeds: res.json({ ok: true, items: rows }).
SelectDone(s) ==
  /\ BagIn(s, inflight) /\ s.op = "select"
  /\ \E rows \in SelectRecent(store, s.limit) :
       resp' = [route |-> "get", ip |-> s.client, status |-> 200, db |-> "ok",
                ops |-> s.tries, q |-> s.q, limit |-> s.limit, items |-> rows]
  /\ inflight' = inflight (-) SetToBag({s})
  /\ UNCHANGED <<store, nextId, now, hits>>
  /\ UNCHANGED <<origins, cors, reached, skipped, mw, bootVars>>

\* The select throws: console.error and the 500 response.
SelectFailed(s) ==
  /\ BagIn(s, inflight) /\ s.op = "select"
  /\ resp' = [route |-> "get", ip |-> s.client, status |-> 500, db |-> "failed",
              ops |-> s.tries, q |-> s.q]
  /\ inflight' = inflight (-) SetToBag({s})
  /\ UNCHANGED <<store, nextId, now, hits>>
  /\ UNCHANGED <<origins, cors, reached, skipped, mw, bootVars>>

\* GET /api/health.
GetHealth(ip) ==
  LET out == ChainOutcome("GET", PHealth, ip, Undefined, TRUE)
  IN /\ hits' = HitsAfter("GET", PHealth, ip, Undefined, TRUE)
     /\ resp' = IF out # "next"
                  THEN Rejected("health", ip, out) @@ [ok |-> FALSE]
                  ELSE [route |-> "health", ip |-> ip, status |-> 200, db |-> "none",
                        ops |-> 0, ok |-> TRUE]
     /\ UNCHANGED <<store, nextId, now, inflight>>
     /\ UNCHANGED <<origins, cors, reached, skipped, mw, bootVars>>

IsRoute(method, path) ==
  \/ method \in {"GET", "POST"} /\ path = PQueries
  \/ method = "GET" /\ path = PHealth

\* Every other request: a preflight, a static file, the index document,
\* or no route at all (404).  A static file is there or not.
Other(method, path, ip, origin) ==
  LET out == ChainOutcome(method, path, ip, origin, TRUE)
  IN /\ ~IsRoute(method, path)
     /\ hits' = HitsAfter(method, path, ip, origin, TRUE)
     /\ IF out # "next"
          THEN resp' = Rejected("other", ip, out)
          ELSE \E status \in IF method = "GET" /\ ~UnderApi(path) THEN {200, 404} ELSE {404} :
                 resp' = [route |-> "other", ip |-> ip, db |-> "none", ops |-> 0,
                          status |-> status]
     /\ UNCHANGED <<store, nextId, now, inflight>>
     /\ UNCHANGED <<origins, cors, reached, skipped, mw, bootVars>>

\* The database clock advances.  Timestamps are only ever compared, so a
\* tick is taken only once a row carries the current time.
Tick ==
  /\ \E i \in 1..Len(store) : store[i].created_at = now
  /\ now' = now + 1
  /\ resp' = NoResp
  /\ UNCHANGED <<store, nextId, inflight, hits>>
  /\ UNCHANGED <<origins, cors, reached, skipped, mw, bootVars>>

(***************************** bootstrap ***********************************)
\* process.env.PORT: unset, empty, or a port number in digits.
PortEnvs == {Undefined, Str(<<>>), Str(<<"8", "0", "8", "1">>),
             Str(<<"6", "5", "5", "3", "4">>)}

\* const defaultPort = process.env.PORT || 8080, as listen() reads it.
ConfiguredPort(env) == IF Truthy(env) THEN Number(env).n ELSE DefaultPort

\* The ports whose state the environment chooses; every other port is free.
ModelPorts == (DefaultPort..(DefaultPort + PortSpan)) \cup ((PortLimit - 2)..(PortLimit - 1))
PortStates == {"free", "inuse", "error"}
PortStatus(p) == IF p \in DOMAIN portState THEN portState[p] ELSE "free"

\* The 'listening' callback: the server is up on `port`.
BindOk ==
  /\ bootPc = "binding"
  /\ PortStatus(port) = "free"
  /\ bootPc' = "listening"
  /\ UNCHANGED <<portEnv, portState, port, attempts, logged>>
  /\ UNCHANGED <<origins, cors, mwVars, apiVars>>

\* The retry going two ports up.
BindInUseSkip ==
  /\ bootPc = "binding"
  /\ PortStatus(port) = "inuse"
  /\ port' = port + 2
  /\ attempts' = Append(attempts, port + 2)
  /\ bootPc' = IF port + 2 >= PortLimit THEN "crashed" ELSE "binding"
  /\ UNCHANGED <<portEnv, portState, logged>>
  /\ UNCHANGED <<origins, cors, mwVars, apiVars>>

\* The 'error' handler with err.code === 'EADDRINUSE':
\* startServer(Number(port) + 1).  listen() throws on a port past 65535,
\* and nothing catches that.
BindInUse ==
  /\ bootPc = "binding"
  /\ PortStatus(port) = "inuse"
  /\ port' = port + 1
  /\ attempts' = Append(attempts, port + 1)
  /\ bootPc' = IF port + 1 >= PortLimit THEN "crashed" ELSE "binding"
  /\ UNCHANGED <<portEnv, portState, logged>>
  /\ UNCHANGED <<origins, cors, mwVars, apiVars>>

\* The 'error' handler with any other code: console.error, and nothing else.
BindError ==
  /\ bootPc = "binding"
  /\ PortStatus(port) = "error"
  /\ bootPc' = "failed"
  /\ logged' = TRUE
  /\ UNCHANGED <<portEnv, portState, port, attempts>>
  /\ UNCHANGED <<origins, cors, mwVars, apiVars>>

(*************************** specifications ********************************)
IdleMw ==
  /\ hits = [ip \in Clients |-> 0]
  /\ reached = [ip \in Clients |-> 0]
  /\ skipped = [ip \in Clients |-> 0]
  /\ mw = NoMw

IdleApi ==
  /\ store = <<>>
  /\ nextId = 1
  /\ now = 0
  /\ inflight = EmptyBag
  /\ resp = [route |-> "none"]

\* The server is up on the default port.
IdleBoot ==
  /\ portEnv = Undefined
  /\ portState = [p \in ModelPorts |-> "free"]
  /\ bootPc = "listening"
  /\ port = DefaultPort
  /\ attempts = <<DefaultPort>>
  /\ logged = FALSE

\* The allow-list of the running example: CORS_ORIGIN=https://a.com
ExampleOrigins == ParseOrigins(Str(OriginA))

\* The CORS policy under every CORS_ORIGIN.
InitCors ==
  /\ origins \in {ParseOrigins(e) : e \in CorsEnvs}
  /\ cors = NoCors
  /\ IdleMw /\ IdleApi /\ IdleBoot

NextCors == \E origin \in OriginHeaders : CorsRequest(origin)

SpecCors == InitCors /\ [][NextCors]_vars

\* The middleware chain, from the start of the process.
InitRate ==
  /\ origins = ExampleOrigins
  /\ cors = NoCors
  /\ IdleMw /\ IdleApi /\ IdleBoot

NextRate ==
  \/ \E r \in SentRequests, ip \in Clients :
       Limiter(r.method, r.path, ip, r.origin, r.jsonOk)
  \/ \E ip \in Clients : WindowReset(ip)

SpecRate == InitRate /\ [][NextRate]_vars

\* The bootstrap under every PORT and every state of the ports.
InitBoot ==
  /\ origins = ExampleOrigins
  /\ cors = NoCors
  /\ IdleMw /\ IdleApi
  /\ portEnv \in PortEnvs
  /\ portState \in [ModelPorts -> PortStates]
  /\ port = ConfiguredPort(portEnv)
  /\ attempts = <<port>>
  /\ bootPc = "binding"
  /\ logged = FALSE

NextBoot == BindOk \/ BindInUse \/ BindError

\* The event loop delivers the 'listening' or 'error' event of every listen().
SpecBoot == InitBoot /\ [][NextBoot]_vars /\ WF_vars(NextBoot)

\* The service mid-window, seen from one address that has Budget requests
\* left.
FirstClient == "10.0.0.1"

Init ==
  /\ origins = ExampleOrigins
  /\ cors = NoCors
  /\ hits = [ip \in Clients |-> IF ip = FirstClient THEN RateMax - Budget ELSE 0]
  /\ reached = [ip \in Clients |-> 0]
  /\ skipped = [ip \in Clients |-> 0]
  /\ mw = NoMw
  /\ IdleApi /\ IdleBoot

Next ==
  \/ \E body \in SentBodies : PostQueries(FirstClient, body)
  \/ \E q \in LimitParams : GetQueries(FirstClient, q)
  \/ GetHealth(FirstClient)
  \/ \E r \in OtherRequests : Other(r.method, r.path, FirstClient, r.origin)
  \/ \E s \in BagToSet(inflight) : InsertDone(s)
  \/ \E s \in BagToSet(inflight) : InsertFailed(s)
  \/ \E s \in BagToSet(inflight) : SelectDone(s)
  \/ \E s \in BagToSet(inflight) : SelectFailed(s)
  \/ Tick

Spec == Init /\ [][Next]_vars

(******************************* claims ************************************)
\* What a claim calls a body that fails validation: text not a string,
\* empty or longer than 2000 characters, meta not an object, or no JSON.
FailsSchema(body) ==
  \/ ~body.json
  \/ body.text.t # "string"
  \/ body.text.len = 0
  \/ body.text.len > 2000
  \/ body.meta = "array"

\* What a claim calls a valid submission: text of 1 to 2000 characters,
\* meta omitted or an object.
ValidSubmission(body) ==
  /\ body.json
  /\ body.text.t = "string"
  /\ body.text.len \in 1..2000
  /\ body.meta \in {"absent", "object"}

\* The limit a claim expects the listing to apply: 20 for an absent or
\* non-numeric parameter, else the number clamped to [1, 100].
StatedLimit(q) ==
  IF Number(q).nan THEN 20 ELSE Max(1, Min(100, Number(q).n))

Listing == resp.route = "get" /\ resp.status = 200

\* C1: every listing returns at most the stated limit of items: the
\* parameter clamped to [1, 100], or 20 when it is absent or non-numeric
\* (so limit=0 and limit=-5 give at most 1 item, limit=500 at most 100).
C1_LimitClamped == Listing => Len(resp.items) <= StatedLimit(resp.q)

C3_ValidPostIs201 ==
  (resp.route = "post" /\ ValidSubmission(resp.body)) => resp.status = 201

\* C3 as amended: a valid POST /api/queries that the rate limiter lets
\* through and whose INSERT succeeds is answered 201 with the positive id
\* and the created_at of exactly one row added by that step, whose text is
\* the submitted text and whose meta is the submitted object, or {} when
\* meta was omitted; when the INSERT fails the answer is 500, when the
\* limiter stops the request it is 429, and neither adds a row.
C3_ValidPostCreates ==
  [][(resp'.route = "post" /\ ValidSubmission(resp'.body)) =>
       /\ resp'.db = "ok" =>
            /\ resp'.status = 201
            /\ Len(store') = Len(store) + 1
            /\ SubSeq(store', 1, Len(store)) = store
            /\ LET row == store'[Len(store')]
               IN /\ row.id = resp'.id /\ row.id > 0
                  /\ \A i \in 1..Len(store) : store[i].id # row.id
                  /\ row.created_at = resp'.createdAt
                  /\ row.text = resp'.body.text.len
                  /\ row.meta = IF resp'.body.meta = "absent" THEN "{}" ELSE "{\"k\":1}"
       /\ resp'.db = "failed" => (resp'.status = 500 /\ store' = store)
       /\ resp'.db = "none" =>
            (resp'.status = 429 /\ hits'[resp'.ip] > RateMax /\ store' = store)]_vars

\* A second row is created from a submission without meta.
C3_Witness ==
  /\ resp.route = "post" /\ resp.status = 201
  /\ resp.body.meta = "absent"
  /\ Len(store) = 2
  /\ store[2].id = resp.id /\ store[2].meta = "{}"

\* The number of requests to /api/ paths an address has made this window.
ApiRequests(ip) == reached[ip] + skipped[ip]

\* C4 as stated: of the requests an address makes to /api/ paths within a
\* window, the first 60 are passed on to their route handler and every
\* later one is rejected by the limiter.
C4_EveryApiRequestCounted ==
  (mw.out # "none" /\ mw.api) =>
     mw.out = IF ApiRequests(mw.ip) <= 60 THEN "next" ELSE "limited"

\* The requests of an address that reach the limiter are passed on up to
\* the 60th and rejected from the 61st; one that does not reach it is
\* never rejected by it.
LimiterCounts ==
  mw.out # "none" =>
    /\ mw.counted <=> (mw.api /\ mw.out \in {"next", "limited"})
    /\ mw.counted => mw.out = IF reached[mw.ip] <= 60 THEN "next" ELSE "limited"
    /\ ~mw.counted => mw.out # "limited"

\* A request consumes quota of its own address only, and only when it
\* reaches the limiter; a count only ever goes back to zero.
QuotaPerAddress ==
  /\ \A ip \in Clients :
       hits'[ip] # hits[ip] =>
         \/ hits'[ip] = 0 /\ mw'.out = "none"
         \/ hits'[ip] = hits[ip] + 1 /\ mw'.out # "none" /\ mw'.counted /\ mw'.ip = ip
  /\ (mw'.out # "none" /\ mw'.counted /\ hits[mw'.ip] <= 60) =>
       hits'[mw'.ip] = hits[mw'.ip] + 1

\* C4 as amended: within one window and for each address, of the /api/
\* requests that reach the limiter (all but a CORS preflight the policy
\* permits, which the CORS middleware answers itself, and a request whose
\* JSON body does not parse, which is answered 400) the first 60 are
\* passed on and the 61st and every later one is rejected; requests from
\* other addresses and to other paths consume none of the quota and are
\* never rejected by the limiter; the count restarts at zero in the next
\* window.
C4_LimiterWindow == []LimiterCounts /\ [][QuotaPerAddress]_vars

\* One address is rejected at its 61st request while another, which has
\* made requests of its own, is still within its quota.
C4_Witness ==
  /\ mw.out = "limited" /\ reached[mw.ip] = RateMax + 1
  /\ \E ip \in Clients : ip # mw.ip /\ reached[ip] \in 1..RateMax

\* C5: every answer to GET /api/health is the success indicator.
C5_HealthAlwaysOk == resp.route = "health" => (resp.status = 200 /\ resp.ok)

Configured == ConfiguredPort(portEnv)

\* The ports from the configured one up that can be bound.
FreePorts == {p \in Configured..Min(Configured + PortSpan + 1, PortLimit - 1) :
                PortStatus(p) = "free"}
LowestFree == CHOOSE p \in FreePorts : \A r \in FreePorts : p <= r

BootOrder ==
  /\ attempts = [i \in 1..Len(attempts) |-> Configured + i - 1]
  /\ port = attempts[Len(attempts)]
  /\ \A i \in 1..(Len(attempts) - 1) : PortStatus(attempts[i]) = "inuse"
  /\ bootPc = "listening" => (PortStatus(port) = "free" /\ port = LowestFree)
  /\ bootPc = "failed" => (logged /\ PortStatus(port) = "error")
  /\ logged => bootPc = "failed"

\* A port in use is followed by an attempt at the next port and is not
\* logged as an error; after another error nothing more is tried.
BootStep ==
  /\ (bootPc = "binding" /\ PortStatus(port) = "inuse") =>
       (attempts' = Append(attempts, port + 1) /\ bootPc' # "failed" /\ ~logged')
  /\ bootPc \in {"failed", "listening"} => (bootPc' = bootPc /\ attempts' = attempts)

\* Every port from the configured one up to the lowest free one is in use.
OnlyInUseBelowFree ==
  /\ FreePorts # {}
  /\ \A p \in Configured..(LowestFree - 1) : PortStatus(p) = "inuse"

C8_LatestInsertFirst ==
  (Listing /\ resp.q = Str(<<"1">>) /\ Len(store) >= 1) =>
     resp.items = <<Listed(store[Len(store)])>>

\* The latest insert is later than every other stored entry.
LatestIsStrictlyLatest ==
  \A i \in 1..(Len(store) - 1) : store[i].created_at < store[Len(store)].created_at

\* C8 as amended: a listing returns stored entries, each once, ordered by
\* created_at descending, no entry left out being more recent than a
\* returned one, as many as the limit allows, at most 20 when there is no
\* limit parameter, each with id, text, ip and created_at but not meta;
\* with limit=1 it returns exactly the latest insert, with the id the POST
\* returned, provided that its created_at is later than every other
\* entry's (entries with equal created_at come in either order).
C8_ListingRecent ==
  Listing =>
    LET items == resp.items
        n == Len(items)
    IN /\ \A i \in 1..n : \E m \in 1..Len(store) : items[i] = Listed(store[m])
       /\ \A i, j \in 1..n : i # j => items[i].id # items[j].id
       /\ \A i, j \in 1..n : i < j => items[i].created_at >= items[j].created_at
       /\ \A m \in 1..Len(store) :
            (\A i \in 1..n : items[i].id # store[m].id) =>
               \A i \in 1..n : store[m].created_at <= items[i].created_at
       /\ n = Min(resp.limit, Len(store))
       /\ ~resp.q.has => (resp.limit = 20 /\ n <= 20)
       /\ \A i \in 1..n : DOMAIN items[i] = {"id", "text", "ip", "created_at"}
       /\ (resp.q = Str(<<"1">>) /\ Len(store) >= 1 /\ LatestIsStrictlyLatest) =>
            items = <<Listed(store[Len(store)])>>

\* With two entries of different times, limit=1 returns the later one.
C8_Witness ==
  /\ Listing /\ resp.q = Str(<<"1">>)
  /\ Len(store) = 2 /\ store[1].created_at < store[2].created_at
  /\ resp.items = <<Listed(store[2])>>

\* The ids grow along the insertion order and every stored text has 1 to
\* 2000 characters.
StoreValid ==
  /\ \A i, j \in 1..Len(store) : i < j => store[i].id < store[j].id
  /\ \A i \in 1..Len(store) : store[i].text \in 1..2000

\* A step leaves the store as it is, or adds one row at its end and is a
\* POST /api/queries answered 201.
StoreAppendOnly ==
  \/ store' = store
  \/ /\ Len(store') = Len(store) + 1
     /\ SubSeq(store', 1, Len(store)) = store
     /\ resp'.route = "post" /\ resp'.status = 201

\* C9: the store is append-only with valid entries: ids unique and
\* increasing in insertion order, every text of 1 to 2000 characters, no
\* entry ever changed or removed, and only a POST /api/queries answered
\* 201 adds one.
C9_AppendOnly == []StoreValid /\ [][StoreAppendOnly]_vars

\* A listing is answered from a store of two rows.
C9_Witness == Listing /\ Len(store) = 2 /\ Len(resp.items) = 2

\* C10: a request issues at most one statement; when the statement fails
\* the answer is 500, the statement is gone and the store is unchanged;
\* a request stopped by the limiter or by validation issues none.
OneStatement ==
  resp'.route # "none" =>
    /\ resp'.ops <= 1
    /\ resp'.db = "failed" =>
         /\ resp'.status = 500 /\ resp'.ops = 1
         /\ store' = store
         /\ BagCardinality(inflight') = BagCardinality(inflight) - 1
    /\ resp'.status = 500 => resp'.db = "failed"
    /\ resp'.status \in {400, 429} =>
         /\ resp'.ops = 0 /\ resp'.db = "none"
         /\ store' = store /\ inflight' = inflight

C10_AllOrNothing ==
  /\ [](\A s \in BagToSet(inflight) : s.tries = 1)
  /\ [][OneStatement]_vars

\* An INSERT fails while the store holds a row.
C10_Witness ==
  /\ resp.route = "post" /\ resp.db = "failed" /\ resp.status = 500
  /\ Len(store) >= 1

====
